---- MODULE Spec2Model ----
(***************************************************************************)
(* SalsaG trust pipeline: the recording flow (sign, upload, record in the  *)
(* ledger) and the verification engine (ledger, transparency log,          *)
(* checksum, signature, aggregation) of salsag-cli, as a state machine.    *)
(*                                                                         *)
(* Python strings that the code inspects (digests, log identifiers) are    *)
(* sequences of one-character strings, so that startswith, slicing and     *)
(* isdigit are computed as the code computes them.  File and object        *)
(* contents are small integers: 0 is the zero-length content, -1 stands    *)
(* for "no such file/object".                                              *)
(***************************************************************************)
EXTENDS Integers, Sequences, FiniteSets, TLC

\* ------------------------------------------------------------------ bounds
MaxContent == 2   \* distinct non-empty byte contents an artifact can have
MaxTarball == 1   \* distinct contents the packaged tarball can have
MaxRuns == 2      \* recording runs (salsaG start) in one behaviour
MaxInterleavedRuns == 1   \* of these, the runs that verify calls interleave with

\* --------------------------------------------------------------- constants
None == <<"None">>           \* Python None / a missing dict key
Absent == -1                 \* no such object / file
Contents == 0..MaxContent    \* 0 = zero-length
Payloads == 1..MaxContent    \* non-empty contents
TarballContents == 1..MaxTarball   \* what package_artifact can write

Calls == {"v1"}              \* verify invocations that may be in flight

bucket == "staging-bucket"   \* config['aws']['staging_bucket']

\* ----------------------------------------------------------------- strings
sha256_prefix == <<"s", "h", "a", "2", "5", "6", ":">>
HexDigits == <<"0", "1", "2", "3", "4", "5", "6", "7",
               "8", "9", "a", "b", "c", "d", "e", "f">>
DecimalDigits == {"0", "1", "2", "3", "4", "5", "6", "7", "8", "9"}

\* str.startswith
startswith(s, p) == Len(s) >= Len(p) /\ SubSeq(s, 1, Len(p)) = p

\* the code's prefix normalisation: if d.startswith('sha256:'): d = d[7:]
strip_sha256_prefix(d) ==
    IF startswith(d, sha256_prefix) THEN SubSeq(d, 8, Len(d)) ELSE d

\* str.isdigit (false on the empty string)
isdigit(s) == Len(s) > 0 /\ \A i \in 1..Len(s) : s[i] \in DecimalDigits

\* Python truthiness of an Optional[str]
truthy(s) == s # None /\ s # <<>>

\* hashlib.sha256(...).hexdigest() of a file holding content c: an injective
\* map into fixed-length lowercase hex strings
_calculate_sha256(c) ==
    <<HexDigits[((c \div 16) % 16) + 1], HexDigits[(c % 16) + 1]>>

\* ------------------------------------------------------------ blob store
\* An object key / file name is the triple <<folder, name, suffix>>, standing
\* for the string folder + name + suffix.
ArtifactNames == {"index.tgz"}
CosignSuffixes == {".sig", ".pem", ".attestation.sigstore"}
Suffixes == {""} \cup CosignSuffixes
SbomFile == <<"", "sbom.spdx.json", "">>
ProvenanceFile == <<"", "provenance.json", "">>
BlobKeys ==
    {<<f, n, s>> : f \in {"", "cosign/"}, n \in ArtifactNames, s \in Suffixes}
    \cup {SbomFile, ProvenanceFile}
\* files of the working directory of `salsaG start`
LocalFiles ==
    {<<"", n, s>> : n \in ArtifactNames, s \in Suffixes \cup {".sig.bundle"}}
    \cup {SbomFile, ProvenanceFile}

\* artifact_name used as an object key
key_of(artifact_name) == <<"", artifact_name, "">>

\* Path(artifact_name).with_suffix(suffix + ext).name
with_suffix(artifact_name, ext) == <<"", artifact_name, ext>>

\* f"s3://{bucket}/{key}"
s3_uri(b, key) == <<"s3://", b>> \o key

\* the object key a file is uploaded to (core.py 211-215)
upload_key(file_type, file_name) ==
    IF file_type \in {"signature", "certificate", "attestation"}
    THEN <<"cosign/", file_name[2], file_name[3]>>
    ELSE file_name

\* outcomes of one S3 call besides success: botocore ClientError (missing
\* key, access denied, throttling) or any other exception (connection lost)
S3Faults == {"none", "ClientError", "Exception"}

\* s3.download_file(bucket, key, path): the error it raises, "none" on success
download_error(store, key, fault) ==
    IF fault # "none" THEN fault
    ELSE IF store[key] = Absent THEN "ClientError" ELSE "none"

\* history: how a download ended, telling the missing object (a ClientError
\* too) from an injected fault
download_outcome(store, key, fault) ==
    IF fault # "none" THEN fault
    ELSE IF store[key] = Absent THEN "NoSuchKey" ELSE "none"

\* ---------------------------------------------------------------- ledger
\* The DynamoDB table is a set of items with a unique object_key.
ExternalDigests ==
    {None, <<>>} \cup {_calculate_sha256(c) : c \in Payloads}
                 \cup {sha256_prefix \o _calculate_sha256(c) : c \in Payloads}
RekorIds == {<<"1", "2">>, <<"a", "1">>}    \* a log index, a UUID

\* items another writer of the shared table may have put there
ExternalItems ==
    [object_key : {s3_uri(bucket, key_of(n)) : n \in ArtifactNames},
     status : {"verified", "failed"},
     digest : ExternalDigests,
     rekor_entry_id : {None} \cup RekorIds,
     rekor_verified : {None},     \* None or <<"True">>
     timestamp : {0},
     details : {"external"},
     artifacts : {<<>>}]

\* table.get_item(Key={'object_key': k}): the set holding the item, or {}
get_item(table, k) == {it \in table : it.object_key = k}

\* (mutant) an update that keeps the identifier of the item it finds when the
\* new item has none
put_item_merging(table, item) ==
    LET old == get_item(table, item.object_key)
    IN  (table \ old) \cup
        {IF old # {} /\ item.rekor_entry_id = None
         THEN [item EXCEPT
                 !.rekor_entry_id = (CHOOSE o \in old : TRUE).rekor_entry_id,
                 !.rekor_verified = (CHOOSE o \in old : TRUE).rekor_verified]
         ELSE item}

\* table.put_item(Item=item): full replacement at the item's key
put_item(table, item) ==
    {it \in table : it.object_key # item.object_key} \cup {item}

\* ------------------------------------------------- transparency log client
\* a truthy value that is not a str: the JSON object a 2xx answer of the log
\* can carry where a list of identifiers is expected
NonListBody == <<"dict">>

\* isinstance(x, str)
is_str(x) == x # None /\ x # NonListBody

\* hashes an entry of the log can record: none, a bare hex digest, or a
\* digest written with the algorithm prefix
RekorHashes ==
    {<<>>} \cup {_calculate_sha256(c) : c \in Payloads}
           \cup {sha256_prefix \o _calculate_sha256(c) : c \in Payloads}

\* the exceptions of the requests library an HTTP call can end in: a timeout,
\* a transport failure, a non-2xx status (raise_for_status), a body that is
\* not JSON (response.json)
HttpErrors == {"Timeout", "ConnectionError", "HTTPError", "JSONDecodeError"}

\* What the log's HTTP endpoint answers to an entry lookup: an error, an empty
\* dict, an entry without a body, an entry whose body does not decode, or an
\* entry recording a hash.
RekorResponses ==
    {[kind |-> k, hash |-> <<>>] :
        k \in HttpErrors \cup {"empty", "no_body", "bad_body"}}
    \cup {[kind |-> "entry", hash |-> h] : h \in RekorHashes}

\* the identifier lists a search can answer with
SearchItems == {<<>>, << <<"a", "1">> >>, << <<"a", "1">>, <<"1", "2">> >>}

\* What the endpoint answers to a search: an error, a JSON list of
\* identifiers, or a JSON object (empty or not).
SearchAnswers ==
    {[kind |-> k, is_list |-> FALSE, items |-> <<>>, size |-> 0] : k \in HttpErrors}
    \cup {[kind |-> "json", is_list |-> TRUE, items |-> l, size |-> Len(l)] :
            l \in SearchItems}
    \cup {[kind |-> "json", is_list |-> FALSE, items |-> <<>>, size |-> n] :
            n \in {0, 1}}

\* isinstance(e, RequestException); with requests >= 2.28 the error of
\* response.json() is one too
is_RequestException(e) ==
    e \in {"Timeout", "ConnectionError", "HTTPError", "JSONDecodeError"}

\* what a method of the client hands to its caller: the exception that leaves
\* it ("none" when it returns), the message, and the value returned
raise(exc, error) == [raised |-> TRUE, exc |-> exc, value |-> None, error |-> error]
return(value) == [raised |-> FALSE, exc |-> "none", value |-> value, error |-> ""]

\* the handlers around the HTTP call of get_entry, get_entry_by_log_index and
\* search_by_hash: except Timeout, except RequestException; any other
\* exception leaves the method as it is
request_failed(e, timeout_error, failure_error) ==
    IF e = "Timeout" THEN raise("RekorError", timeout_error)
    ELSE IF is_RequestException(e) THEN raise("RekorError", failure_error)
    ELSE raise(e, e)

\* RekorClient.get_entry: the parsed answer, or RekorError
get_entry(entry_uuid, resp) ==
    IF resp.kind \in HttpErrors
    THEN request_failed(resp.kind, "Timeout fetching Rekor entry",
                        "Failed to fetch Rekor entry")
    ELSE return(<<"json">>)

\* RekorClient.get_entry_by_log_index
get_entry_by_log_index(log_index, resp) ==
    IF resp.kind \in HttpErrors
    THEN request_failed(resp.kind, "Timeout fetching Rekor entry",
                        "Failed to fetch Rekor entry")
    ELSE return(<<"json">>)

\* (mutant) every identifier is looked up as a UUID
rekor_endpoint_uuid_only(entry_id) == "get_entry"

\* the lookup verify_entry dispatches to
rekor_endpoint(entry_id) ==
    IF isdigit(entry_id) THEN "get_entry_by_log_index" ELSE "get_entry"

\* the lookups verify_entry makes for an identifier: none when the identifier
\* is not a str (entry_id.isdigit raises AttributeError)
lookups_of(entry_id) ==
    IF is_str(entry_id) THEN <<rekor_endpoint(entry_id)>> ELSE <<>>

\* (mutant) only RekorError is handled: any other exception leaves verify_entry
verify_entry_failed_unwrapped(r) == r

\* except RekorError: raise / except Exception as e: raise RekorError(...)
\* (rekor_client.py 115-118)
verify_entry_failed(r) ==
    IF r.exc = "RekorError" THEN r
    ELSE raise("RekorError", "Failed to verify Rekor entry")

\* entry_hash == expected_sha256 after the prefix is cut from expected_sha256
\* (rekor_client.py 104-108)
hashes_match(entry_hash, expected_sha256) ==
    entry_hash = strip_sha256_prefix(expected_sha256)

\* RekorClient.verify_entry: returns True or raises RekorError
verify_entry(entry_id, expected_sha256, resp) ==
    IF ~is_str(entry_id) THEN
        verify_entry_failed(raise("AttributeError", "AttributeError"))
    ELSE
        LET entry_data == IF rekor_endpoint(entry_id) = "get_entry_by_log_index"
                          THEN get_entry_by_log_index(entry_id, resp)
                          ELSE get_entry(entry_id, resp)
        IN  IF entry_data.raised THEN verify_entry_failed(entry_data)
            ELSE IF resp.kind = "empty" THEN
                verify_entry_failed(raise("RekorError", "Entry not found"))
            ELSE IF resp.kind = "no_body" THEN
                verify_entry_failed(raise("RekorError", "Entry body not found"))
            ELSE IF resp.kind = "bad_body" THEN
                \* base64.b64decode / json.loads / body.get
                verify_entry_failed(raise("ValueError", "ValueError"))
            ELSE IF hashes_match(resp.hash, expected_sha256) THEN
                return(<<"True">>)
            ELSE
                verify_entry_failed(raise("RekorError", "Hash mismatch"))

\* the hash search_by_hash posts: f"sha256:{sha256_hash}" after the prefix is
\* cut from sha256_hash (rekor_client.py 54-60)
search_payload(sha256_hash) == sha256_prefix \o strip_sha256_prefix(sha256_hash)

\* RekorClient.search_by_hash: the parsed answer, or RekorError
search_by_hash(sha256_hash, answer) ==
    IF answer.kind \in HttpErrors
    THEN request_failed(answer.kind, "Timeout searching Rekor",
                        "Failed to search Rekor")
    ELSE return(<<"json">>)

\* entry_uuids[0] if isinstance(entry_uuids, list) else entry_uuids, None for
\* a falsy answer (rekor_client.py 125-129)
first_of_answer(answer) ==
    IF answer.size = 0 THEN None
    ELSE IF answer.is_list THEN answer.items[1] ELSE NonListBody

\* RekorClient.get_latest_entry_for_hash: except RekorError: return None
get_latest_entry_for_hash(sha256_hash, answer) ==
    LET entry_uuids == search_by_hash(sha256_hash, answer)
    IN  IF entry_uuids.exc = "RekorError" THEN return(None)
        ELSE IF entry_uuids.raised THEN entry_uuids
        ELSE return(first_of_answer(answer))

\* what the signer's bundle file holds: nothing that parses (no file, not
\* JSON, not an object), or a logEntry with or without uuid and logID
Bundles ==
    {[kind |-> "unreadable", uuid |-> None, logID |-> None]}
    \cup [kind : {"json"}, uuid : {None, <<"a", "1">>}, logID : {None, <<"a", "1">>}]

\* RekorClient.extract_rekor_uuid_from_bundle: log_entry.get('uuid') or
\* log_entry.get('logID'); None on any exception
extract_rekor_uuid_from_bundle(bundle) ==
    IF bundle.kind = "unreadable" THEN None
    ELSE IF truthy(bundle.uuid) THEN bundle.uuid ELSE bundle.logID

\* ------------------------------------------------------------------ state
VARIABLES
    ledger,   \* the trust-ledger table: a set of items
    blob,     \* the staging bucket: object key -> content, or Absent
    vc,       \* the verify calls: call -> locals of verify_artifact_comprehensive
    fs,       \* the working directory: file name -> content, or Absent
    rc,       \* the recording run (salsaG start): its locals
    st,       \* the status command (salsaG status): its output
    rk,       \* a call of the transparency-log client: arguments and outcome
    mcp       \* the project directory the MCP server's tools work on

vars == <<ledger, blob, vc, fs, rc, st, rk, mcp>>

\* (mutant) the checksum signal starts out true: a check that is skipped passes
fresh_results_checksum_passed ==
    [ledger_verified |-> FALSE, checksum_verified |-> TRUE,
     cosign_verified |-> FALSE, overall_verified |-> FALSE, details |-> <<>>]

\* verification_results as verify_artifact_comprehensive initialises it
fresh_results ==
    [ledger_verified |-> FALSE, checksum_verified |-> FALSE,
     cosign_verified |-> FALSE, overall_verified |-> FALSE, details |-> <<>>]

no_ledger_result ==
    [verified |-> FALSE, digest |-> None, details |-> "",
     verification_method |-> "", rekor_verified |-> "unset", rekor_error |-> ""]

\* a call that has not started: its locals hold placeholders
\* (io, ret, item_status and the *_at_start fields are history: the external
\* calls made so far, how the call returned, what get_item answered, and what
\* the stores held when the call began; printed and exit_status are what the
\* verify command has written to the console and the status it exits with)
idle_call ==
    [pc |-> "idle", artifact_name |-> "", rekor_entry_id |-> None,
     item_digest |-> None, item_status |-> "",
     ledger_result |-> no_ledger_result, verification_results |-> fresh_results,
     temp_file |-> Absent, temp_artifact |-> Absent, temp_sig |-> Absent,
     temp_cert |-> Absent, io |-> <<>>, ret |-> "none",
     printed |-> <<>>, exit_status |-> 0,
     recorded_at_start |-> FALSE, signed_at_start |-> FALSE]

\* a recording run that has not started
\* (runs counts the runs started; recorded holds the tarball names for which
\* a run got through put_item; signer and search are how the external signer
\* and the search of the transparency log ended ("ok" or "failed"), "none"
\* when not called;
\* fault is the call whose error ended the run; replaced is what put_item
\* found at the key: all of these are history)
idle_run ==
    [pc |-> "idle", dry_run |-> FALSE, skip_signing |-> FALSE,
     rekor_uuid |-> None, s3_urls |-> <<>>, outcome |-> "none", runs |-> 0,
     recorded |-> {}, signer |-> "none", search |-> "none", fault |-> "none",
     replaced |-> {}]

\* the status command before it has run
\* (the counts are the numbers the command has printed, 0 when it printed none)
idle_status ==
    [pc |-> "idle", outcome |-> "none", error |-> "", exit_status |-> 0,
     verified_count |-> 0, failed_count |-> 0, total_count |-> 0]

\* the client before a call
\* (op is the method called; entry_id and digest its arguments; kind, hash,
\* is_list, items and size what the endpoint answered; lookups the entry
\* lookups made; normalized the digest after the method's prefix cut; payload
\* the hash posted by a search; exc, error and value how the method ended)
idle_client ==
    [pc |-> "idle", op |-> "", entry_id |-> <<>>, digest |-> <<>>,
     kind |-> "", hash |-> <<>>, is_list |-> FALSE, items |-> <<>>, size |-> 0,
     lookups |-> <<>>, normalized |-> <<>>, payload |-> <<>>,
     exc |-> "none", error |-> "", value |-> None]

\* the files the MCP tools create, remove or read: the three generated files
\* and a workflow of the project's own
GeneratedFiles ==
    {"salsag.yml", "buildspec.yml", ".github/workflows/salsagate-pipeline.yml"}
WorkflowFiles ==
    {".github/workflows/salsagate-pipeline.yml", ".github/workflows/ci.yml"}
ProjectFiles == GeneratedFiles \cup WorkflowFiles

\* what a file holds: "generated" is the text handle_install writes, "own" a
\* text of the project that does not mention SalsaG, "own salsag" one that does
FileTexts == {"generated", "own", "own salsag"}

\* "salsag" in content.lower(): the generated buildspec holds `salsaG verify`,
\* the generated workflow `SalsaGate Pipeline`
mentions_salsag(text) == text \in {"generated", "own salsag"}

\* an empty project directory and no tool called
\* (files maps a file to "absent" or to the text it holds; workflows_dir tells
\* whether .github/workflows exists; tool, outcome, issues, removed, not_found
\* and written are the last tool call, what it answered and what it wrote;
\* arguments tells whether an install call named both buckets; prev_tool and
\* prev_outcome are the call before it)
idle_project ==
    [files |-> [f \in ProjectFiles |-> "absent"], workflows_dir |-> FALSE,
     tool |-> "", outcome |-> "", issues |-> {}, removed |-> {},
     not_found |-> {}, written |-> {}, arguments |-> "",
     prev_tool |-> "", prev_outcome |-> ""]

\* signature and certificate objects some other tool left at the bare keys
BareSignatureObjects == {Absent, 0, 1}

empty_bucket == [k \in BlobKeys |-> Absent]

\* The program after deployment: nothing recorded, nothing uploaded, an empty
\* working directory.
Init ==
    /\ ledger = {}
    /\ \E sigs \in {Absent, 1} :
        blob = [empty_bucket EXCEPT ![<<"", "index.tgz", ".sig">>] = sigs,
                                    ![<<"", "index.tgz", ".pem">>] = sigs]
    /\ vc = [c \in Calls |-> idle_call]
    /\ fs = [f \in LocalFiles |-> Absent]
    /\ rc = idle_run
    /\ st = idle_status
    /\ rk = idle_client
    /\ mcp = idle_project

\* The verification engine facing a ledger and a bucket in any state of the
\* bounded universe: every item (also one another writer put, with a status
\* other than "verified", without a digest, ...), and every stored artifact,
\* signature and certificate object (also bytes that are not the bytes whose
\* digest was recorded: an object mutated after recording).
InitEngine ==
    /\ ledger \in {{}} \cup {{it} : it \in ExternalItems}
    /\ \E art \in {Absent} \cup Payloads,
          sig \in BareSignatureObjects, cert \in BareSignatureObjects :
        blob = [empty_bucket EXCEPT ![<<"", "index.tgz", "">>] = art,
                                    ![<<"", "index.tgz", ".sig">>] = sig,
                                    ![<<"", "index.tgz", ".pem">>] = cert]
    /\ vc = [c \in Calls |-> idle_call]
    /\ fs = [f \in LocalFiles |-> Absent]
    /\ rc = idle_run
    /\ st = idle_status
    /\ rk = idle_client
    /\ mcp = idle_project

\* verify invocations running at the same time (two shells, two CI jobs)
ConcurrentCalls == {"v1", "v2"}

\* items as record_ledger writes them
RecordedItems ==
    {it \in ExternalItems :
        /\ it.status = "verified"
        /\ startswith(it.digest, sha256_prefix)
        /\ it.rekor_entry_id \in {None, <<"a", "1">>}}

\* Two verify calls against a ledger that holds nothing or a recorded item,
\* and a bucket that holds the artifact or not, with or without signature and
\* certificate objects at the keys verification reads.
InitConcurrent ==
    /\ ledger \in {{}} \cup {{it} : it \in RecordedItems}
    /\ \E art \in {Absent} \cup Payloads, sigs \in {Absent, 1} :
        blob = [empty_bucket EXCEPT ![<<"", "index.tgz", "">>] = art,
                                    ![<<"", "index.tgz", ".sig">>] = sigs,
                                    ![<<"", "index.tgz", ".pem">>] = sigs]
    /\ vc = [c \in ConcurrentCalls |-> idle_call]
    /\ fs = [f \in LocalFiles |-> Absent]
    /\ rc = idle_run
    /\ st = idle_status
    /\ rk = idle_client
    /\ mcp = idle_project

\* ------------------------------------------------------ verification engine
\* details entries are pairs <<text, cause>>
detail(text) == <<text, "">>

\* one external call of a verify call: what was called, in which step, on
\* what, and how it ended
io_entry(op, step, target, outcome) ==
    [op |-> op, step |-> step, target |-> target, outcome |-> outcome]

\* (mutant) the error is swallowed: the call goes on to the aggregation and
\* reports nothing
error_return_swallowed(call, cause) == [call EXCEPT !.pc = "aggregate"]

\* except Exception as e (core.py 466-469): the terminal error verdict
error_return(call, cause) ==
    [call EXCEPT !.pc = "done", !.ret = "error",
                 !.verification_results.details =
                     Append(@, <<"Verification error", cause>>)]

\* the result dict verify_from_ledger builds from a found item
ledger_lookup_result(item) ==
    [verified |-> item.status = "verified", digest |-> item.digest,
     details |-> item.details, verification_method |-> "ledger",
     rekor_verified |-> "unset", rekor_error |-> ""]

\* {'verified': False, 'status': 'Not found in ledger'}
not_found_result == [no_ledger_result EXCEPT !.details = "Not found in ledger"]

\* (mutant) a raised RekorError fails the ledger check as a False return does
rekor_result_fatal(result, r) ==
    IF ~r.raised /\ r.value = <<"True">> THEN
        [result EXCEPT !.rekor_verified = "True", !.verification_method = "rekor"]
    ELSE
        [result EXCEPT !.rekor_verified = "False", !.rekor_error = r.error,
                       !.verified = FALSE, !.details = "Rekor verification failed"]

\* how verify_from_ledger folds the outcome r of verify_entry into its result
rekor_result(result, r) ==
    IF r.raised THEN
        [result EXCEPT !.rekor_verified = "False", !.rekor_error = r.error]
    ELSE IF r.value = <<"True">> THEN
        [result EXCEPT !.rekor_verified = "True", !.verification_method = "rekor"]
    ELSE
        [result EXCEPT !.rekor_verified = "False", !.verification_method = "rekor",
                       !.verified = FALSE, !.details = "Rekor verification failed"]

\* (mutant) the stored digest is compared with itself
checksum_matches_itself(content, stored_digest) ==
    strip_sha256_prefix(stored_digest) = strip_sha256_prefix(stored_digest)

\* calculated_digest == stored_digest, after stripping the stored prefix
checksum_matches(content, stored_digest) ==
    _calculate_sha256(content) = strip_sha256_prefix(stored_digest)

\* (mutant) the signature signal is left out of the aggregation
overall_without_cosign(vr) == vr.ledger_verified /\ vr.checksum_verified

\* the aggregation of the three signals
overall(vr) ==
    vr.ledger_verified /\ vr.checksum_verified /\ vr.cosign_verified

verify_start(c) ==
    /\ vc[c].pc = "idle"
    /\ \E name \in ArtifactNames :
        vc' = [vc EXCEPT ![c] =
                [idle_call EXCEPT
                    !.pc = "get_item",
                    !.artifact_name = name,
                    !.recorded_at_start = name \in rc.recorded,
                    !.signed_at_start =
                        /\ blob[upload_key("signature", with_suffix(name, ".sig"))] > 0
                        /\ blob[upload_key("certificate", with_suffix(name, ".pem"))] > 0]]
    /\ UNCHANGED <<ledger, blob, fs, rc, st, rk, mcp>>


\* outcomes of one DynamoDB call besides success: botocore ClientError, which
\* verify_from_ledger turns into RuntimeError("DynamoDB error: ..."), or any
\* other exception (no connection), which it lets through
LedgerFaults == {"none", "ClientError", "Exception"}

\* the message of the exception that leaves verify_from_ledger
ledger_error(fault) == IF fault = "ClientError" THEN "DynamoDB error" ELSE fault

\* table.get_item and the result dict built from it (core.py 315-328, 350-355)
verify_from_ledger_get_item(c) ==
    /\ vc[c].pc = "get_item"
    /\ \E fault \in LedgerFaults :
        LET object_key == s3_uri(bucket, key_of(vc[c].artifact_name))
            found == get_item(ledger, object_key)
            call == [vc[c] EXCEPT !.io =
                        Append(@, io_entry("ledger.get_item", "ledger", object_key,
                                           fault))]
        IN  vc' = [vc EXCEPT ![c] =
                IF fault # "none" THEN
                    \* raise RuntimeError(f"DynamoDB error: {e}")
                    error_return(call, ledger_error(fault))
                ELSE IF found = {} THEN
                    [call EXCEPT !.ledger_result = not_found_result,
                                 !.item_status = "no item", !.pc = "gate"]
                ELSE
                    LET item == CHOOSE it \in found : TRUE
                    IN  [call EXCEPT
                            !.ledger_result = ledger_lookup_result(item),
                            !.item_status = item.status,
                            !.item_digest = item.digest,
                            !.rekor_entry_id = item.rekor_entry_id,
                            !.pc = IF truthy(item.rekor_entry_id)
                                   THEN "rekor" ELSE "gate"]]
    /\ UNCHANGED <<ledger, blob, fs, rc, st, rk, mcp>>

\* self.rekor.verify_entry(rekor_entry_id, expected_sha256) (core.py 329-347)
verify_from_ledger_rekor(c) ==
    /\ vc[c].pc = "rekor"
    /\ \E resp \in RekorResponses :
        LET call == vc[c]
            \* item.get('digest', '')
            expected_sha256 == IF call.item_digest = None THEN <<>>
                               ELSE call.item_digest
            r == verify_entry(call.rekor_entry_id, expected_sha256, resp)
            looked_up == lookups_of(call.rekor_entry_id)
            logged ==
                [call EXCEPT !.io =
                    IF looked_up = <<>> THEN @
                    ELSE Append(@, io_entry(looked_up[1], "rekor",
                                            call.rekor_entry_id,
                                            IF r.raised THEN r.error ELSE "none"))]
        IN  vc' = [vc EXCEPT ![c] =
                IF r.raised /\ r.exc # "RekorError" THEN
                    \* no handler of verify_from_ledger takes it: core.py 466-469
                    error_return(logged, r.exc)
                ELSE
                    [logged EXCEPT !.ledger_result = rekor_result(@, r),
                                   !.pc = "gate"]]
    /\ UNCHANGED <<ledger, blob, fs, rc, st, rk, mcp>>

\* (mutant) the sub-checks run whatever the ledger said
after_gate_ungated(ledger_verified, digest) ==
    IF truthy(digest) THEN "checksum" ELSE "sig_artifact"

\* where the call goes once ledger_verified is known (core.py 373-377, 450)
after_gate(ledger_verified, digest) ==
    IF ledger_verified
    THEN IF truthy(digest) THEN "checksum" ELSE "sig_artifact"
    ELSE "aggregate"

\* (mutant) the gate writes the outcome of the lookup back to the item
verify_gate_writing(c) ==
    /\ vc[c].pc = "gate"
    /\ vc' = [vc EXCEPT ![c].pc = "aggregate"]
    /\ ledger' = {[it EXCEPT !.details = "checked"] : it \in ledger}
    /\ UNCHANGED <<blob, fs, rc, st, rk, mcp>>

\* ledger_verified and the gate on it (core.py 371-377, 450-451)
verify_gate(c) ==
    /\ vc[c].pc = "gate"
    /\ LET call == vc[c]
           lv == call.ledger_result.verified
       IN  vc' = [vc EXCEPT ![c] =
               [call EXCEPT
                   !.verification_results.ledger_verified = lv,
                   !.verification_results.details =
                       Append(@, IF lv THEN detail("Trust ledger verification passed")
                                 ELSE detail("Trust ledger verification failed")),
                   !.pc = after_gate(lv, call.ledger_result.digest)]]
    /\ UNCHANGED <<ledger, blob, fs, rc, st, rk, mcp>>

\* step 2: download, recompute, compare (core.py 378-404); a failed download
\* is caught by no handler of the step and reaches core.py 466-469
verify_checksum(c) ==
    /\ vc[c].pc = "checksum"
    /\ \E fault \in S3Faults :
        LET key == key_of(vc[c].artifact_name)
            err == download_error(blob, key, fault)
            call == [vc[c] EXCEPT !.io =
                        Append(@, io_entry("s3.download_file", "checksum", key,
                                           download_outcome(blob, key, fault)))]
        IN  vc' = [vc EXCEPT ![c] =
                IF err # "none" THEN error_return(call, err)
                ELSE IF checksum_matches(blob[key], call.ledger_result.digest) THEN
                    [call EXCEPT
                        !.temp_file = blob[key],
                        !.verification_results.checksum_verified = TRUE,
                        !.verification_results.details =
                            Append(@, detail("Checksum verification passed")),
                        !.pc = "sig_artifact"]
                ELSE
                    [call EXCEPT
                        !.temp_file = blob[key],
                        !.verification_results.details =
                            Append(@, detail("Checksum verification failed")),
                        !.pc = "sig_artifact"]]
    /\ UNCHANGED <<ledger, blob, fs, rc, st, rk, mcp>>

\* except Exception as e (core.py 446-448)
cosign_error(call, cause) ==
    [call EXCEPT !.verification_results.details =
                     Append(@, <<"Cosign verification error", cause>>),
                 !.verification_results.cosign_verified = TRUE,
                 !.pc = "aggregate"]

\* except ClientError (core.py 442-444): cosign files not found
cosign_files_not_found(call) ==
    [call EXCEPT !.verification_results.cosign_verified = TRUE,
                 !.pc = "aggregate"]

\* step 3, the artifact download (core.py 426)
verify_sig_artifact(c) ==
    /\ vc[c].pc = "sig_artifact"
    /\ \E fault \in S3Faults :
        LET key == key_of(vc[c].artifact_name)
            err == download_error(blob, key, fault)
            call == [vc[c] EXCEPT !.io =
                        Append(@, io_entry("s3.download_file", "signature", key,
                                           download_outcome(blob, key, fault)))]
        IN  vc' = [vc EXCEPT ![c] =
                IF err # "none" THEN cosign_error(call, err)
                ELSE [call EXCEPT !.temp_artifact = blob[key], !.pc = "sig_signature"]]
    /\ UNCHANGED <<ledger, blob, fs, rc, st, rk, mcp>>

\* the object key verification downloads a signature file from:
\* signature_files[role].name (core.py 429-430)
signature_download_key(artifact_name, ext) == with_suffix(artifact_name, ext)

\* step 3, the signature download (core.py 429)
verify_sig_signature(c) ==
    /\ vc[c].pc = "sig_signature"
    /\ \E fault \in S3Faults :
        LET key == signature_download_key(vc[c].artifact_name, ".sig")
            err == download_error(blob, key, fault)
            call == [vc[c] EXCEPT !.io =
                        Append(@, io_entry("s3.download_file", "signature", key,
                                           download_outcome(blob, key, fault)))]
        IN  vc' = [vc EXCEPT ![c] =
                IF err = "ClientError" THEN cosign_files_not_found(call)
                ELSE IF err # "none" THEN cosign_error(call, err)
                ELSE [call EXCEPT !.temp_sig = blob[key], !.pc = "sig_certificate"]]
    /\ UNCHANGED <<ledger, blob, fs, rc, st, rk, mcp>>

\* step 3, the certificate download (core.py 430)
verify_sig_certificate(c) ==
    /\ vc[c].pc = "sig_certificate"
    /\ \E fault \in S3Faults :
        LET key == signature_download_key(vc[c].artifact_name, ".pem")
            err == download_error(blob, key, fault)
            call == [vc[c] EXCEPT !.io =
                        Append(@, io_entry("s3.download_file", "signature", key,
                                           download_outcome(blob, key, fault)))]
        IN  vc' = [vc EXCEPT ![c] =
                IF err = "ClientError" THEN cosign_files_not_found(call)
                ELSE IF err # "none" THEN cosign_error(call, err)
                ELSE [call EXCEPT !.temp_cert = blob[key], !.pc = "cosign"]]
    /\ UNCHANGED <<ledger, blob, fs, rc, st, rk, mcp>>

\* outcomes of running `cosign verify-blob`: exit status 0, non-zero, or the
\* process could not be run at all
VerifierOutcomes == {"exit0", "exit1", "exception"}

\* does verify_cosign_signature run the external verifier (core.py 267-277)
verifier_invoked(sig, cert) == sig # 0 /\ cert # 0

\* the value verify_cosign_signature returns (core.py 267-305)
cosign_result(sig, cert, outcome) ==
    IF ~verifier_invoked(sig, cert) THEN TRUE ELSE outcome = "exit0"

\* SalsaGCore.verify_cosign_signature on the downloaded triple (core.py 438)
verify_cosign_signature(c) ==
    /\ vc[c].pc = "cosign"
    /\ \E outcome \in VerifierOutcomes :
        LET call == vc[c]
            ran == verifier_invoked(call.temp_sig, call.temp_cert)
        IN  /\ ~ran => outcome = "exit0"
            /\ vc' = [vc EXCEPT ![c] =
                [call EXCEPT
                    !.verification_results.cosign_verified =
                        cosign_result(call.temp_sig, call.temp_cert, outcome),
                    !.io = IF ran
                           THEN Append(@, io_entry("cosign verify-blob", "signature",
                                                   key_of(call.artifact_name), outcome))
                           ELSE @,
                    !.pc = "aggregate"]]
    /\ UNCHANGED <<ledger, blob, fs, rc, st, rk, mcp>>

\* the aggregation and the normal return (core.py 453-463)
verify_aggregate(c) ==
    /\ vc[c].pc = "aggregate"
    /\ vc' = [vc EXCEPT ![c] =
            [vc[c] EXCEPT
                !.verification_results.overall_verified =
                    overall(vc[c].verification_results),
                !.ret = "normal",
                !.pc = "done"]]
    /\ UNCHANGED <<ledger, blob, fs, rc, st, rk, mcp>>

\* (mutant) the command fails only when the ledger check failed
exit_status_of_ledger(vr) == IF vr.ledger_verified THEN 0 ELSE 1

\* the status the verify command exits with (cli.py 131-135)
exit_status(vr) == IF vr.overall_verified THEN 0 ELSE 1

\* the verify command takes the verdict: it prints every entry of details,
\* then the outcome, and calls sys.exit(1) on a false verdict (cli.py 124-135)
verify_return(c) ==
    /\ vc[c].pc = "done"
    /\ vc' = [vc EXCEPT ![c] =
            [vc[c] EXCEPT
                !.printed = vc[c].verification_results.details,
                !.exit_status = exit_status(vc[c].verification_results),
                !.pc = "exited"]]
    /\ UNCHANGED <<ledger, blob, fs, rc, st, rk, mcp>>

\* the process is gone; the next invocation starts afresh
verify_exit(c) ==
    /\ vc[c].pc = "exited"
    /\ vc' = [vc EXCEPT ![c] = idle_call]
    /\ UNCHANGED <<ledger, blob, fs, rc, st, rk, mcp>>

verify_artifact_comprehensive(c) ==
    \/ verify_start(c)
    \/ verify_from_ledger_get_item(c)
    \/ verify_from_ledger_rekor(c)
    \/ verify_gate(c)
    \/ verify_checksum(c)
    \/ verify_sig_artifact(c)
    \/ verify_sig_signature(c)
    \/ verify_sig_certificate(c)
    \/ verify_cosign_signature(c)
    \/ verify_aggregate(c)

\* the verify command (cli.py 105-139)
verify(c) ==
    \/ verify_artifact_comprehensive(c)
    \/ verify_return(c)
    \/ verify_exit(c)

\* ------------------------------------------------------- recording flow
\* Path.touch(): creates an empty file, leaves an existing file's content
touch(files, f) == IF files[f] = Absent THEN [files EXCEPT ![f] = 0] ELSE files

\* for sig_file in signature_files.values(): sig_file.touch()
touch_signature_files(files, name) ==
    touch(touch(touch(files, with_suffix(name, ".sig")),
                with_suffix(name, ".pem")),
          with_suffix(name, ".attestation.sigstore"))

Tarball == "index.tgz"    \* package_artifact's tarball_name for a directory

\* cli.start up to SalsaGCore(cfg) (cli.py 31-57)
start(dry_run, skip_signing) ==
    /\ rc.pc = "idle"
    /\ rc.runs < MaxRuns
    /\ rc' = [idle_run EXCEPT !.pc = "package", !.dry_run = dry_run,
                              !.skip_signing = skip_signing,
                              !.runs = rc.runs + 1,
                              !.recorded = rc.recorded]
    /\ UNCHANGED <<ledger, blob, vc, fs, st, rk, mcp>>

\* SalsaGCore.package_artifact (core.py 58-81)
package_artifact(content) ==
    /\ rc.pc = "package"
    /\ fs' = IF rc.dry_run THEN fs
             ELSE [fs EXCEPT ![key_of(Tarball)] = content]
    /\ rc' = [rc EXCEPT !.pc = "sbom"]
    /\ UNCHANGED <<ledger, blob, vc, st, rk, mcp>>

\* SalsaGCore.generate_sbom (core.py 83-103)
generate_sbom ==
    /\ rc.pc = "sbom"
    /\ fs' = IF rc.dry_run THEN fs ELSE [fs EXCEPT ![SbomFile] = 1]
    /\ rc' = [rc EXCEPT !.pc = "provenance"]
    /\ UNCHANGED <<ledger, blob, vc, st, rk, mcp>>

\* except Exception in cli.start (cli.py 96-98)
pipeline_failed(run) == [run EXCEPT !.pc = "finished", !.outcome = "failed"]

\* the same, with the exception that ended the run
pipeline_failed_by(run, fault) == [pipeline_failed(run) EXCEPT !.fault = fault]

\* SalsaGCore.create_provenance (core.py 105-138); _calculate_sha256 opens
\* the tarball
create_provenance ==
    /\ rc.pc = "provenance"
    /\ IF rc.dry_run THEN
           /\ rc' = [rc EXCEPT !.pc = "sign"]
           /\ fs' = fs
       ELSE IF fs[key_of(Tarball)] = Absent THEN
           /\ rc' = pipeline_failed_by(rc, "FileNotFoundError")
           /\ fs' = fs
       ELSE
           /\ rc' = [rc EXCEPT !.pc = "sign"]
           /\ fs' = [fs EXCEPT ![ProvenanceFile] = 1]
    /\ UNCHANGED <<ledger, blob, vc, st, rk, mcp>>

\* outcomes of `cosign sign-blob`: success, or a failure of any kind (non-zero
\* exit, timeout, no such binary)
SignerOutcomes == {"ok", "CalledProcessError", "TimeoutExpired", "FileNotFoundError"}

\* (mutant) the log is searched whatever the bundle held
search_needed_always(rekor_uuid) == TRUE

\* if not rekor_uuid (core.py 178)
search_needed(rekor_uuid) == ~truthy(rekor_uuid)

\* (mutant) the failure of the signer leaves sign_artifact as an exception
signer_failure_raised(run, outcome) ==
    [pipeline_failed_by(run, outcome) EXCEPT !.signer = "failed"]

\* except Exception in sign_artifact (core.py 182-189): the error is printed
\* and counted, and the method returns (signature_files, None)
signer_failed(run, outcome) ==
    [run EXCEPT !.signer = "failed", !.rekor_uuid = None, !.pc = "upload"]

\* SalsaGCore.sign_artifact up to the bundle extraction (core.py 140-175, 182-189)
sign_artifact ==
    /\ rc.pc = "sign"
    /\ IF rc.skip_signing \/ rc.dry_run THEN
           /\ fs' = touch_signature_files(fs, Tarball)
           /\ rc' = [rc EXCEPT !.rekor_uuid = None, !.pc = "upload"]
       ELSE \E outcome \in SignerOutcomes, bundle \in Bundles :
           LET bundle_id == extract_rekor_uuid_from_bundle(bundle) IN
           IF outcome = "ok" /\ fs[key_of(Tarball)] # Absent THEN
               /\ fs' = touch([fs EXCEPT
                                ![with_suffix(Tarball, ".sig")] = fs[key_of(Tarball)],
                                ![with_suffix(Tarball, ".pem")] = 1,
                                ![with_suffix(Tarball, ".sig.bundle")] = 1],
                              with_suffix(Tarball, ".attestation.sigstore"))
               /\ rc' = [rc EXCEPT !.signer = "ok",
                                   !.rekor_uuid = bundle_id,
                                   !.pc = IF search_needed(bundle_id)
                                          THEN "sign_search" ELSE "upload"]
           ELSE
               /\ bundle.kind = "unreadable"
               /\ fs' = touch_signature_files(fs, Tarball)
               /\ rc' = signer_failed(rc, IF outcome = "ok"
                                          THEN "CalledProcessError" ELSE outcome)
    /\ UNCHANGED <<ledger, blob, vc, st, rk, mcp>>

\* the fallback search by hash (core.py 178-180); an exception that leaves
\* get_latest_entry_for_hash is caught at core.py 182-189
sign_artifact_search ==
    /\ rc.pc = "sign_search"
    /\ \E answer \in SearchAnswers :
        LET artifact_sha256 == _calculate_sha256(fs[key_of(Tarball)])
            r == get_latest_entry_for_hash(artifact_sha256, answer)
        IN  IF r.raised THEN
                /\ rc' = [rc EXCEPT !.search = "failed", !.pc = "upload"]
                /\ fs' = touch_signature_files(fs, Tarball)
            ELSE
                /\ rc' = [rc EXCEPT !.rekor_uuid = r.value,
                                    !.search = IF answer.kind = "json"
                                               THEN "ok" ELSE "failed",
                                    !.pc = "upload"]
                /\ fs' = fs
    /\ UNCHANGED <<ledger, blob, vc, st, rk, mcp>>

\* files_to_upload, in the order the loop visits them (core.py 200-207)
files_to_upload ==
    << <<"tarball", key_of(Tarball)>>,
       <<"signature", with_suffix(Tarball, ".sig")>>,
       <<"certificate", with_suffix(Tarball, ".pem")>>,
       <<"attestation", with_suffix(Tarball, ".attestation.sigstore")>>,
       <<"sbom", SbomFile>>,
       <<"provenance", ProvenanceFile>> >>

\* one iteration of the upload loop (core.py 210-217), or the whole dry-run
\* loop (core.py 219-224)
upload_artifacts ==
    /\ rc.pc = "upload"
    /\ IF rc.dry_run THEN
           /\ rc' = [rc EXCEPT
                       !.s3_urls = [i \in 1..Len(files_to_upload) |->
                                       s3_uri(bucket, upload_key(files_to_upload[i][1],
                                                                 files_to_upload[i][2]))],
                       !.pc = "record"]
           /\ blob' = blob
       ELSE \E fault \in S3Faults :
           LET i == Len(rc.s3_urls) + 1
               file_type == files_to_upload[i][1]
               file_path == files_to_upload[i][2]
               key == upload_key(file_type, file_path)
           IN  IF fault # "none" \/ fs[file_path] = Absent THEN
                   /\ rc' = pipeline_failed_by(rc, IF fault # "none"
                                                   THEN "s3.upload_file"
                                                   ELSE "FileNotFoundError")
                   /\ blob' = blob
               ELSE
                   /\ blob' = [blob EXCEPT ![key] = fs[file_path]]
                   /\ rc' = [rc EXCEPT
                               !.s3_urls = Append(@, s3_uri(bucket, key)),
                               !.pc = IF i = Len(files_to_upload)
                                      THEN "record" ELSE "upload"]
    /\ UNCHANGED <<ledger, vc, fs, st, rk, mcp>>

\* (mutant) the item is keyed by the wrong entry of s3_urls
ledger_entry_wrong_key(tarball_content, s3_urls, rekor_uuid, timestamp) ==
    [object_key |-> s3_urls[2],
     status |-> "verified",
     digest |-> sha256_prefix \o _calculate_sha256(tarball_content),
     timestamp |-> timestamp,
     details |-> "Signed and verified by SalsaG CLI",
     artifacts |-> s3_urls,
     rekor_entry_id |-> IF truthy(rekor_uuid) THEN rekor_uuid ELSE None,
     rekor_verified |-> IF truthy(rekor_uuid) THEN <<"True">> ELSE None]

\* the item record_ledger builds (core.py 234-249)
ledger_entry(tarball_content, s3_urls, rekor_uuid, timestamp) ==
    [object_key |-> s3_urls[1],
     status |-> "verified",
     digest |-> sha256_prefix \o _calculate_sha256(tarball_content),
     timestamp |-> timestamp,
     details |-> "Signed and verified by SalsaG CLI",
     artifacts |-> s3_urls,
     rekor_entry_id |-> IF truthy(rekor_uuid) THEN rekor_uuid ELSE None,
     rekor_verified |-> IF truthy(rekor_uuid) THEN <<"True">> ELSE None]

\* SalsaGCore.record_ledger (core.py 231-256)
record_ledger ==
    /\ rc.pc = "record"
    /\ \E fault \in {"none", "ClientError"} :
        IF fs[key_of(Tarball)] = Absent THEN
            \* _calculate_sha256 cannot open the tarball
            /\ fault = "none"
            /\ rc' = pipeline_failed_by(rc, "FileNotFoundError")
            /\ ledger' = ledger
        ELSE IF rc.dry_run THEN
            /\ fault = "none"
            /\ rc' = [rc EXCEPT !.pc = "finished", !.outcome = "success"]
            /\ ledger' = ledger
        ELSE IF fault # "none" THEN
            /\ rc' = pipeline_failed_by(rc, "table.put_item")
            /\ ledger' = ledger
        ELSE
            /\ ledger' = put_item(ledger,
                            ledger_entry(fs[key_of(Tarball)], rc.s3_urls,
                                         rc.rekor_uuid, rc.runs))
            /\ rc' = [rc EXCEPT !.pc = "finished", !.outcome = "success",
                                !.recorded = @ \cup {Tarball},
                                !.replaced = get_item(ledger, rc.s3_urls[1])]
    /\ UNCHANGED <<blob, vc, fs, st, rk, mcp>>

\* the command exits (cli.py 96-103); the next invocation starts afresh
finish ==
    /\ rc.pc = "finished"
    /\ rc' = [idle_run EXCEPT !.runs = rc.runs, !.recorded = rc.recorded]
    /\ UNCHANGED <<ledger, blob, vc, fs, st, rk, mcp>>

\* --------------------------------------------------------- specifications
Recording ==
    \/ \E dry_run \in BOOLEAN, skip_signing \in BOOLEAN : start(dry_run, skip_signing)
    \/ \E content \in TarballContents : package_artifact(content)
    \/ generate_sbom
    \/ create_provenance
    \/ sign_artifact
    \/ sign_artifact_search
    \/ upload_artifacts
    \/ record_ledger
    \/ finish

Verification == \E c \in Calls : verify(c)

Next == (Recording /\ rc'.runs <= MaxInterleavedRuns) \/ Verification

\* recording runs and verify calls, interleaved
Spec == Init /\ [][Next]_vars

\* salsaG status (cli.py 141-161): core.get_ledger_stats() names a method
\* SalsaGCore does not have (the statistics block at core.py 470-492 is
\* unreachable code at the end of verify_artifact_comprehensive); the
\* AttributeError is caught at cli.py 159-161
status ==
    /\ st.pc = "idle"
    /\ st' = [idle_status EXCEPT !.pc = "exited",
                                 !.outcome = "Status check failed",
                                 !.error = "AttributeError",
                                 !.exit_status = 1]
    /\ UNCHANGED <<ledger, blob, vc, fs, rc, rk, mcp>>

\* the status process is gone
status_exit ==
    /\ st.pc = "exited"
    /\ st' = idle_status
    /\ UNCHANGED <<ledger, blob, vc, fs, rc, rk, mcp>>

NextRecording == Recording \/ status \/ status_exit

\* recording runs one after another in the same working directory, and the
\* status command between their steps
SpecRecording == Init /\ [][NextRecording]_vars

NextEngine == Verification

\* verify calls alone, against every ledger and bucket content
SpecEngine == InitEngine /\ [][NextEngine]_vars

NextConcurrent == \E c \in ConcurrentCalls : verify(c)

\* two verify calls on the same artifact, their steps interleaved in any order
SpecConcurrent == InitConcurrent /\ [][NextConcurrent]_vars

\* An artifact that an earlier run on another machine has uploaded and
\* recorded, with signature and certificate objects at the keys verification
\* reads; the working directory of this machine is empty.
InitOverwrite ==
    /\ \E c \in Payloads, it \in RecordedItems :
        /\ it.digest = sha256_prefix \o _calculate_sha256(c)
        /\ ledger = {it}
        /\ blob = [empty_bucket EXCEPT ![<<"", "index.tgz", "">>] = c,
                                       ![<<"", "index.tgz", ".sig">>] = 1,
                                       ![<<"", "index.tgz", ".pem">>] = 1]
    /\ vc = [c \in Calls |-> idle_call]
    /\ fs = [f \in LocalFiles |-> Absent]
    /\ rc = idle_run
    /\ st = idle_status
    /\ rk = idle_client
    /\ mcp = idle_project

\* a verify call on the recorded artifact while a recording run uploads the
\* artifact again
SpecOverwrite == InitOverwrite /\ [][Next]_vars

\* ------------------------------------------- the client's methods, called
\* identifiers a caller passes: a log index, a UUID, a mix of digits and letters
ClientIds == RekorIds \cup {<<"1", "a">>}

\* digests a caller passes: empty, bare hex, prefixed, prefixed twice
ClientDigests ==
    (ExternalDigests \ {None})
    \cup {sha256_prefix \o sha256_prefix \o _calculate_sha256(c) : c \in Payloads}

\* the call record of a lookup method
lookup_call(op, id, resp, r) ==
    [idle_client EXCEPT !.pc = "returned", !.op = op, !.entry_id = id,
                        !.kind = resp.kind, !.hash = resp.hash,
                        !.lookups = <<op>>,
                        !.exc = r.exc, !.error = r.error, !.value = r.value]

\* the call record of a search method
search_call(op, digest, answer, r) ==
    [idle_client EXCEPT !.pc = "returned", !.op = op, !.digest = digest,
                        !.kind = answer.kind, !.is_list = answer.is_list,
                        !.items = answer.items, !.size = answer.size,
                        !.normalized = strip_sha256_prefix(digest),
                        !.payload = search_payload(digest),
                        !.exc = r.exc, !.error = r.error, !.value = r.value]

call_get_entry ==
    /\ rk.pc = "idle"
    /\ \E id \in ClientIds, resp \in RekorResponses :
        rk' = lookup_call("get_entry", id, resp, get_entry(id, resp))
    /\ UNCHANGED <<ledger, blob, vc, fs, rc, st, mcp>>

call_get_entry_by_log_index ==
    /\ rk.pc = "idle"
    /\ \E id \in ClientIds, resp \in RekorResponses :
        rk' = lookup_call("get_entry_by_log_index", id, resp,
                          get_entry_by_log_index(id, resp))
    /\ UNCHANGED <<ledger, blob, vc, fs, rc, st, mcp>>

call_search_by_hash ==
    /\ rk.pc = "idle"
    /\ \E digest \in ClientDigests, answer \in SearchAnswers :
        rk' = search_call("search_by_hash", digest, answer,
                          search_by_hash(digest, answer))
    /\ UNCHANGED <<ledger, blob, vc, fs, rc, st, mcp>>

call_get_latest_entry_for_hash ==
    /\ rk.pc = "idle"
    /\ \E digest \in ClientDigests, answer \in SearchAnswers :
        rk' = search_call("get_latest_entry_for_hash", digest, answer,
                          get_latest_entry_for_hash(digest, answer))
    /\ UNCHANGED <<ledger, blob, vc, fs, rc, st, mcp>>

call_verify_entry ==
    /\ rk.pc = "idle"
    /\ \E id \in ClientIds \cup {NonListBody}, digest \in ClientDigests,
          resp \in RekorResponses :
        LET r == verify_entry(id, digest, resp)
        IN  rk' = [idle_client EXCEPT
                    !.pc = "returned", !.op = "verify_entry", !.entry_id = id,
                    !.digest = digest, !.kind = resp.kind, !.hash = resp.hash,
                    !.lookups = lookups_of(id),
                    !.normalized = strip_sha256_prefix(digest),
                    !.exc = r.exc, !.error = r.error, !.value = r.value]
    /\ UNCHANGED <<ledger, blob, vc, fs, rc, st, mcp>>

\* the caller has taken the outcome
call_return ==
    /\ rk.pc = "returned"
    /\ rk' = idle_client
    /\ UNCHANGED <<ledger, blob, vc, fs, rc, st, mcp>>

NextRekor ==
    \/ call_get_entry
    \/ call_get_entry_by_log_index
    \/ call_search_by_hash
    \/ call_get_latest_entry_for_hash
    \/ call_verify_entry
    \/ call_return

\* the methods of the transparency-log client, each on every identifier,
\* digest and answer of the endpoint
SpecRekor == Init /\ [][NextRekor]_vars

\* ----------------------------------------------------- MCP server tools
\* a tool call begins: the answer of the call before it becomes history
next_call(project, tool) ==
    [project EXCEPT !.tool = tool, !.prev_tool = project.tool,
                    !.prev_outcome = project.outcome,
                    !.issues = {}, !.removed = {}, !.not_found = {},
                    !.written = {}, !.arguments = ""]

\* the issues handle_check lists (server.py 169-201)
check_issues(project) ==
    (IF project.files["salsag.yml"] = "absent"
     THEN {"salsag.yml not found"} ELSE {})
    \cup (IF project.files["buildspec.yml"] = "absent"
          THEN {"buildspec.yml not found"}
          ELSE IF ~mentions_salsag(project.files["buildspec.yml"])
          THEN {"buildspec.yml exists but doesn't contain SalsaG verification"}
          ELSE {})
    \cup (IF ~project.workflows_dir
          THEN {".github/workflows directory not found"}
          ELSE IF \A f \in WorkflowFiles : ~mentions_salsag(project.files[f])
          THEN {"No GitHub workflow with SalsaG integration found"}
          ELSE {})

\* result["installed"] = all(result["files"].values()) (server.py 204)
check_installed(project) ==
    /\ project.files["salsag.yml"] # "absent"
    /\ project.files["buildspec.yml"] # "absent"
    /\ project.workflows_dir
    /\ \E f \in WorkflowFiles : mentions_salsag(project.files[f])

\* salsag_check (server.py 152-232)
handle_check ==
    /\ mcp' = [next_call(mcp, "salsag_check") EXCEPT
                !.outcome = IF check_installed(mcp) THEN "INSTALLED"
                            ELSE "NOT INSTALLED",
                !.issues = check_issues(mcp)]
    /\ UNCHANGED <<ledger, blob, vc, fs, rc, st, rk>>

\* the steps of handle_install that touch the directory, in order
\* (server.py 249-250, 268, 306, 375)
install_steps ==
    <<".github/workflows", "salsag.yml", "buildspec.yml",
      ".github/workflows/salsagate-pipeline.yml">>

\* the directory after the first n steps of handle_install
installed_upto(project, n) ==
    [project EXCEPT
        !.workflows_dir = @ \/ n >= 1,
        !.files = [f \in ProjectFiles |->
                    IF \E i \in 2..n : install_steps[i] = f
                    THEN "generated" ELSE project.files[f]],
        !.written = {install_steps[i] : i \in 1..n}]

\* bucket names a caller passes: none, an empty one, a name
BucketArguments == {None, <<>>, <<"b">>}

\* salsag_install (server.py 235-401); failed_step is the step an OSError
\* stops it at, 0 for none
handle_install(staging_bucket, website_bucket, failed_step) ==
    /\ IF ~truthy(staging_bucket) \/ ~truthy(website_bucket) THEN
           /\ failed_step = 0
           /\ mcp' = [next_call(mcp, "salsag_install") EXCEPT
                       !.arguments = "bucket missing",
                       !.outcome = "Error: staging_bucket and website_bucket are required"]
       ELSE IF failed_step = 0 THEN
           mcp' = [installed_upto(next_call(mcp, "salsag_install"),
                                  Len(install_steps)) EXCEPT
                      !.arguments = "complete",
                      !.outcome = "SalsaGate installed successfully!"]
       ELSE
           mcp' = [installed_upto(next_call(mcp, "salsag_install"),
                                  failed_step - 1) EXCEPT
                      !.arguments = "complete",
                      !.outcome = "Error installing SalsaGate"]
    /\ UNCHANGED <<ledger, blob, vc, fs, rc, st, rk>>

\* (mutant) the workflow file is left out of the removal
files_to_remove_top_level == {"salsag.yml", "buildspec.yml"}

\* files_to_remove (server.py 547-551)
files_to_remove ==
    {"salsag.yml", "buildspec.yml", ".github/workflows/salsagate-pipeline.yml"}

\* salsag_uninstall (server.py 538-582)
handle_uninstall ==
    /\ LET removed == {f \in files_to_remove : mcp.files[f] # "absent"}
       IN  mcp' = [next_call(mcp, "salsag_uninstall") EXCEPT
                    !.files = [f \in ProjectFiles |->
                                IF f \in removed THEN "absent" ELSE mcp.files[f]],
                    !.removed = removed,
                    !.not_found = files_to_remove \ removed,
                    !.outcome = IF removed # {}
                                THEN "SalsaGate has been uninstalled."
                                ELSE "No SalsaGate files found to remove."]
    /\ UNCHANGED <<ledger, blob, vc, fs, rc, st, rk>>

\* A project directory before the first tool call: empty, or holding files
\* of the project's own (a buildspec, a workflow, a salsag.yml).
InitMcp ==
    /\ ledger = {}
    /\ blob = empty_bucket
    /\ vc = [c \in Calls |-> idle_call]
    /\ fs = [f \in LocalFiles |-> Absent]
    /\ rc = idle_run
    /\ st = idle_status
    /\ rk = idle_client
    /\ \E own_config \in {"absent", "own"},
          own_buildspec \in {"absent", "own", "own salsag"},
          own_workflow \in {"absent", "own", "own salsag"},
          dir \in BOOLEAN :
        /\ own_workflow # "absent" => dir
        /\ mcp = [idle_project EXCEPT
                    !.files = [idle_project.files EXCEPT
                                 !["salsag.yml"] = own_config,
                                 !["buildspec.yml"] = own_buildspec,
                                 ![".github/workflows/ci.yml"] = own_workflow],
                    !.workflows_dir = dir]

NextMcp ==
    \/ handle_check
    \/ \E staging_bucket \in BucketArguments, website_bucket \in BucketArguments,
          failed_step \in 0..Len(install_steps) :
            handle_install(staging_bucket, website_bucket, failed_step)
    \/ handle_uninstall

\* the tools of the MCP server called one after another on a directory
SpecMcp == InitMcp /\ [][NextMcp]_vars

\* ------------------------------------------------------------------ claims
results(c) == vc[c].verification_results
returned(c) == vc[c].pc = "done"
object_key_of(c) == s3_uri(bucket, key_of(vc[c].artifact_name))

\* the call has made an external call in this step
made(c, step) == \E i \in 1..Len(vc[c].io) : vc[c].io[i].step = step

\* an external call of this step ended in an error
failed_in(c, step) ==
    \E i \in 1..Len(vc[c].io) :
        vc[c].io[i].step = step /\ vc[c].io[i].outcome # "none"

\* the external verifier was run, with this outcome
verifier_ran(c, outcomes) ==
    \E i \in 1..Len(vc[c].io) :
        vc[c].io[i].op = "cosign verify-blob" /\ vc[c].io[i].outcome \in outcomes

\* the object is at neither key a signature file can have
object_absent(c, ext) ==
    /\ blob[with_suffix(vc[c].artifact_name, ext)] = Absent
    /\ blob[upload_key("signature", with_suffix(vc[c].artifact_name, ext))] = Absent

\* C1: in every verdict verify_artifact_comprehensive returns, by the normal
\* return or by the error return, overall_verified is true exactly when
\* ledger_verified, checksum_verified and cosign_verified are all true; what
\* the transparency-log check said is no part of it.
C1_OverallIsConjunction ==
    \A c \in Calls : returned(c) =>
        (results(c).overall_verified <=>
            (/\ results(c).ledger_verified
             /\ results(c).checksum_verified
             /\ results(c).cosign_verified))

\* a verdict that is true although the transparency-log check failed
C1_Witness ==
    \E c \in Calls :
        /\ returned(c) /\ vc[c].ret = "normal"
        /\ results(c).overall_verified
        /\ vc[c].ledger_result.rekor_verified = "False"

\* C2: a verify call for a name the ledger holds no item for makes no external
\* call besides the ledger lookup (no log request, no download, no verifier
\* run) and leaves checksum_verified, cosign_verified and overall_verified
\* false, in the verdict it returns as at every point before.
C2_NoRecordShortCircuits ==
    \A c \in Calls :
        (vc[c].pc # "idle" /\ get_item(ledger, object_key_of(c)) = {}) =>
            /\ \A i \in 1..Len(vc[c].io) : vc[c].io[i].step = "ledger"
            /\ ~results(c).checksum_verified
            /\ ~results(c).cosign_verified
            /\ ~results(c).overall_verified

\* a normal return for a name without an item
C2_Witness ==
    \E c \in Calls :
        /\ returned(c) /\ vc[c].ret = "normal"
        /\ get_item(ledger, object_key_of(c)) = {}
        /\ vc[c].item_status = "no item"

\* C3: when the item found has a status other than "verified", ledger_verified
\* is false and the call makes no external call after the ledger lookup: no
\* transparency-log lookup, no download, no verifier run.
C3_UnverifiedStatusGates ==
    \A c \in Calls :
        vc[c].item_status \notin {"", "no item", "verified"} =>
            /\ ~results(c).ledger_verified
            /\ \A i \in 1..Len(vc[c].io) : vc[c].io[i].step = "ledger"

\* the ledger holds a recorded item for the call's artifact and the stored
\* object's bytes are not the bytes whose digest the item records
tampered(c) ==
    \E it \in get_item(ledger, object_key_of(c)) :
        /\ it.status = "verified"
        /\ truthy(it.digest)
        /\ blob[key_of(vc[c].artifact_name)] # Absent
        /\ _calculate_sha256(blob[key_of(vc[c].artifact_name)])
               # strip_sha256_prefix(it.digest)

\* C4, read for every call: with the stored bytes differing from the recorded ones, every
\* verdict has checksum_verified = false, overall_verified = false and
\* ledger_verified = true.
C4_TamperOriginal ==
    \A c \in Calls : (returned(c) /\ tampered(c)) =>
        /\ ~results(c).checksum_verified
        /\ ~results(c).overall_verified
        /\ results(c).ledger_verified

\* C4, with the ledger fault set apart: with the stored bytes differing from the recorded ones, every
\* verdict has checksum_verified = false and overall_verified = false, and
\* ledger_verified is true unless the ledger lookup itself failed.
C4_Tamper ==
    \A c \in Calls : (returned(c) /\ tampered(c)) =>
        /\ ~results(c).checksum_verified
        /\ ~results(c).overall_verified
        /\ (results(c).ledger_verified <=> ~failed_in(c, "ledger"))

\* the checksum step was served the tampered bytes and reported the mismatch
C4_Witness ==
    \E c \in Calls :
        /\ returned(c) /\ tampered(c)
        /\ vc[c].temp_file = blob[key_of(vc[c].artifact_name)]
        /\ results(c).ledger_verified
        /\ \E i \in 1..Len(results(c).details) :
            results(c).details[i] = detail("Checksum verification failed")

C6_LogErrorNonFatal ==
    \A c \in Calls :
        (vc[c].item_status = "verified" /\ failed_in(c, "rekor")) =>
            /\ vc[c].ledger_result.verified
            /\ returned(c) =>
                /\ results(c).ledger_verified
                /\ truthy(vc[c].item_digest) <=> made(c, "checksum")
                /\ ~failed_in(c, "checksum") =>
                    (made(c, "signature") /\ vc[c].ret = "normal")
                /\ results(c).overall_verified <=>
                    (results(c).checksum_verified /\ results(c).cosign_verified)

\* the log timed out, the checksum and signature steps ran, the verdict is true
C6_Witness ==
    \E c \in Calls :
        /\ returned(c)
        /\ vc[c].ledger_result.rekor_error = "Timeout fetching Rekor entry"
        /\ made(c, "checksum") /\ made(c, "signature")
        /\ results(c).overall_verified

\* a details entry that reports the log's hash mismatch
reports_mismatch(entry) ==
    entry[1] = "Rekor verification failed" \/ entry[2] = "Hash mismatch"

\* C7: when the log check fails with a hash mismatch while ledger and checksum
\* pass and no signature objects exist, the verdict has overall_verified =
\* true and its details hold an entry reporting the mismatch.
C7_MismatchWarningInDetails ==
    \A c \in Calls :
        (/\ returned(c)
         /\ vc[c].ledger_result.rekor_error = "Hash mismatch"
         /\ results(c).ledger_verified
         /\ results(c).checksum_verified
         /\ object_absent(c, ".sig") /\ object_absent(c, ".pem")) =>
            /\ results(c).overall_verified
            /\ \E i \in 1..Len(results(c).details) :
                reports_mismatch(results(c).details[i])

\* C8: in a verdict with ledger_verified = true for an artifact whose
\* signature or certificate object is absent, cosign_verified is true and the
\* verifier was not run; and with an item {status "verified", digest
\* "sha256:" + h} and stored bytes of digest h, all four signals are true.
C8_AbsentSignatureDefaultsTrue ==
    \A c \in Calls :
        (/\ returned(c)
         /\ results(c).ledger_verified
         /\ object_absent(c, ".sig") \/ object_absent(c, ".pem")) =>
            /\ results(c).cosign_verified
            /\ ~verifier_ran(c, VerifierOutcomes)
            /\ (/\ startswith(vc[c].item_digest, sha256_prefix)
                /\ vc[c].temp_file # Absent
                /\ checksum_matches(vc[c].temp_file, vc[c].item_digest)) =>
                    /\ results(c).checksum_verified
                    /\ results(c).overall_verified

\* every download of the call was answered by the store (no injected fault)
store_answered(c) ==
    \A i \in 1..Len(vc[c].io) :
        vc[c].io[i].op = "s3.download_file" =>
            vc[c].io[i].outcome \in {"none", "NoSuchKey"}

\* C9: a verify call that starts when the non-empty signature and certificate
\* objects a recording run uploaded are in the bucket, passes step 1 and has
\* every download answered, downloads both objects and runs the external
\* verifier; a non-zero exit gives cosign_verified = false and
\* overall_verified = false.
C9_UploadedSignaturesVerified ==
    \A c \in Calls :
        (/\ returned(c) /\ vc[c].ret = "normal"
         /\ results(c).ledger_verified
         /\ vc[c].signed_at_start
         /\ store_answered(c)) =>
            /\ \A ext \in {".sig", ".pem"} :
                \E i \in 1..Len(vc[c].io) :
                    /\ vc[c].io[i].op = "s3.download_file"
                    /\ vc[c].io[i].target =
                        upload_key("signature", with_suffix(vc[c].artifact_name, ext))
                    /\ vc[c].io[i].outcome = "none"
            /\ verifier_ran(c, VerifierOutcomes)
            /\ verifier_ran(c, {"exit1"}) =>
                (~results(c).cosign_verified /\ ~results(c).overall_verified)

\* C10: when step 1 passes and the download of the checksum step fails,
\* checksum_verified is false, an entry is appended to details after the
\* ledger entry, and the call still carries out the signature step.
C10_ChecksumFailureConfined ==
    \A c \in Calls :
        (/\ returned(c)
         /\ results(c).ledger_verified
         /\ failed_in(c, "checksum")) =>
            /\ ~results(c).checksum_verified
            /\ Len(results(c).details) >= 2
            /\ made(c, "signature")

\* a download of the signature step failed for a reason other than the
\* signature or certificate object being absent
signature_io_failure(c) ==
    \E i \in 1..Len(vc[c].io) :
        /\ vc[c].io[i].step = "signature"
        /\ vc[c].io[i].op = "s3.download_file"
        /\ vc[c].io[i].outcome # "none"
        /\ ~(/\ vc[c].io[i].outcome = "NoSuchKey"
             /\ vc[c].io[i].target # key_of(vc[c].artifact_name))

\* C11: in a verdict with ledger_verified = true whose signature step suffered
\* an I/O failure other than an absent signature or certificate object,
\* cosign_verified is false, overall_verified is false and details holds a
\* warning about the failure.
C11_SignatureIoFailureNotVerified ==
    \A c \in Calls :
        (/\ returned(c)
         /\ results(c).ledger_verified
         /\ signature_io_failure(c)) =>
            /\ ~results(c).cosign_verified
            /\ ~results(c).overall_verified
            /\ \E i \in 1..Len(results(c).details) :
                results(c).details[i][1] = "Cosign verification error"

\* C12: a verify call whose ledger lookup fails with a backing-store error
\* ends in the terminal error verdict: the four signals are false, details
\* holds the one entry that reports the error, and the call has made no
\* external call besides the ledger lookup (no download, no log lookup, no
\* verifier run).
C12_LedgerErrorIsTerminal ==
    \A c \in Calls :
        failed_in(c, "ledger") =>
            /\ vc[c].ret = "error"
            /\ ~results(c).ledger_verified
            /\ ~results(c).checksum_verified
            /\ ~results(c).cosign_verified
            /\ ~results(c).overall_verified
            /\ Len(results(c).details) = 1
            /\ \E fault \in LedgerFaults \ {"none"} :
                results(c).details[1] = <<"Verification error", ledger_error(fault)>>
            /\ \A i \in 1..Len(vc[c].io) : vc[c].io[i].step = "ledger"

\* the lookup failed for an artifact that is recorded, identified in the log
\* and stored: every later step would have had something to do
C12_Witness ==
    \E c \in Calls :
        /\ returned(c) /\ failed_in(c, "ledger")
        /\ \E it \in get_item(ledger, object_key_of(c)) :
            it.status = "verified" /\ truthy(it.digest) /\ truthy(it.rekor_entry_id)
        /\ blob[key_of(vc[c].artifact_name)] # Absent

\* C13: no step of a verify call, alone or between the steps of another verify
\* call on the same artifact, on no path (error paths included), changes the
\* ledger table or any stored object.
C13_VerifyIsReadOnly ==
    [][(vc' # vc) => (ledger' = ledger /\ blob' = blob)]_vars

\* one call has returned after its downloads while the other, started on the
\* same recorded artifact, is in the middle of its checksum step
C13_Witness ==
    \E c1 \in DOMAIN vc, c2 \in DOMAIN vc :
        /\ c1 # c2
        /\ vc[c1].artifact_name = vc[c2].artifact_name
        /\ vc[c1].pc = "done" /\ made(c1, "checksum") /\ made(c1, "signature")
        /\ vc[c2].pc = "checksum"
        /\ ledger # {}

\* C14: when the verify command exits after a verdict was returned (by the
\* normal return or as the terminal error verdict), its exit status is 0 if
\* overall_verified is true and 1 if it is false, and it has printed every
\* entry of details, in order.
C14_ExitStatusFollowsVerdict ==
    \A c \in Calls :
        vc[c].pc = "exited" =>
            /\ results(c).overall_verified => vc[c].exit_status = 0
            /\ ~results(c).overall_verified => vc[c].exit_status # 0
            /\ vc[c].printed = results(c).details

\* the command has exited with status 1 on a verdict whose ledger check passed
\* but whose checksum did not, after printing the entries of both steps
C14_Witness ==
    \E c \in Calls :
        /\ vc[c].pc = "exited"
        /\ vc[c].exit_status = 1
        /\ results(c).ledger_verified /\ ~results(c).checksum_verified
        /\ Len(vc[c].printed) >= 2

\* the run in progress is not a dry run, and its signer or its search of the
\* transparency log has failed
signing_degraded == ~rc.dry_run /\ (rc.signer = "failed" \/ rc.search = "failed")

\* the ledger holds the record this run wrote for the tarball
record_written ==
    \E it \in get_item(ledger, s3_uri(bucket, key_of(Tarball))) :
        it.status = "verified" /\ it.timestamp = rc.runs

signed_off == rc.pc \in {"upload", "record", "finished"}

\* the three role files of the tarball
role_files == {with_suffix(Tarball, ext) : ext \in CosignSuffixes}

\* C16: when signing is skipped (skip_signing, or a dry run), sign_artifact
\* has not run the external signer, has returned no identifier, and the
\* signature, certificate and attestation files exist with zero length.
C16_SkippedSigningLeavesEmptyFiles ==
    (signed_off /\ (rc.skip_signing \/ rc.dry_run)) =>
        /\ rc.signer = "none"
        /\ rc.rekor_uuid = None
        /\ \A f \in role_files : fs[f] = 0

\* C17: when the external signer fails (non-zero exit, timeout, no binary),
\* sign_artifact returns normally (the run goes on to upload), with no
\* identifier and with the signature, certificate and attestation files
\* existing as zero-length placeholders.
C17_SignerFailureLeavesPlaceholders ==
    (signed_off /\ rc.signer = "failed") =>
        /\ rc.fault \in {"none", "s3.upload_file", "table.put_item"}
        /\ rc.rekor_uuid = None
        /\ \A f \in role_files : fs[f] = 0

\* the key record_ledger writes the tarball's record under
tarball_uri == s3_uri(bucket, key_of(Tarball))

\* C18: the ledger never holds more than one record at the tarball's key, and
\* when a non-dry run has recorded, the record at the key is exactly the one
\* this run built (its digest, URLs, timestamp), whatever record was there
\* before: without an identifier in this run the record has no rekor_entry_id
\* and no rekor_verified.
C18_RecordIsReplaced ==
    /\ Cardinality(get_item(ledger, tarball_uri)) <= 1
    /\ (rc.pc = "finished" /\ rc.outcome = "success" /\ ~rc.dry_run) =>
        /\ get_item(ledger, tarball_uri) =
            {ledger_entry(fs[key_of(Tarball)], rc.s3_urls, rc.rekor_uuid, rc.runs)}
        /\ \A it \in get_item(ledger, tarball_uri) :
            /\ it.status = "verified"
            /\ it.timestamp = rc.runs
            /\ ~truthy(rc.rekor_uuid) =>
                (it.rekor_entry_id = None /\ it.rekor_verified = None)

\* a run without an identifier has recorded over a record that had one
C18_Witness ==
    /\ rc.pc = "finished" /\ rc.outcome = "success" /\ ~rc.dry_run
    /\ rc.rekor_uuid = None
    /\ \E old \in rc.replaced : truthy(old.rekor_entry_id)
    /\ Cardinality(get_item(ledger, tarball_uri)) = 1

\* the number of items of the table that have this status
count_status(table, status_value) ==
    Cardinality({it \in table : it.status = status_value})

\* C19: when the status command has run, either it has printed the statistics
\* of the scanned table (verified_count the number of items with status
\* "verified", failed_count the number with status "failed", total_count the
\* number of items), or a backing-store error made it report a failure.
C19_StatusReportsCounts ==
    st.pc = "exited" =>
        \/ /\ st.outcome = "statistics"
           /\ st.verified_count = count_status(ledger, "verified")
           /\ st.failed_count = count_status(ledger, "failed")
           /\ st.total_count = Cardinality(ledger)
        \/ /\ st.outcome = "Status check failed"
           /\ st.error \in {"ClientError", "DynamoDB error"}

\* C20: no step of a dry-run start changes the blob store, the ledger or any
\* file of the working directory, and none runs the external signer.
C20_DryRunChangesNothing ==
    [][rc.dry_run =>
        (/\ blob' = blob
         /\ ledger' = ledger
         /\ fs' = fs
         /\ rc'.signer = "none")]_vars

\* C21: a dry-run start goes through package, SBOM, provenance, sign, upload
\* and record, and ends by reporting success, with or without a tarball of an
\* earlier run in the working directory: no dry run ends as failed.
C21_DryRunCompletes ==
    (rc.dry_run /\ rc.pc = "finished") => rc.outcome = "success"

\* what a successful signer run leaves: signature and certificate with
\* content, the attestation file present
evidence_populated(files) ==
    /\ files[with_suffix(Tarball, ".sig")] > 0
    /\ files[with_suffix(Tarball, ".pem")] > 0
    /\ files[with_suffix(Tarball, ".attestation.sigstore")] # Absent

\* C22: after a successful signer run the bundle is parsed first and the log
\* is searched only when the bundle gave no identifier; an identifier of the
\* bundle is the one returned, without a search; after a search the run goes
\* on to upload with the search's answer as identifier, which is absent when
\* the search failed or found nothing; in every case sign_artifact returns
\* normally and the evidence files are populated.
C22_IdentifierResolutionOrder ==
    [][/\ (rc.pc = "sign" /\ rc'.signer = "ok") =>
            /\ rc'.search = "none"
            /\ rc'.pc = (IF truthy(rc'.rekor_uuid) THEN "upload" ELSE "sign_search")
            /\ evidence_populated(fs')
       /\ (rc.pc = "sign_search" /\ rc' # rc) =>
            /\ rc.signer = "ok" /\ ~truthy(rc.rekor_uuid)
            /\ rc'.search # "none"
            /\ rc'.pc = "upload" /\ rc'.fault = "none" /\ rc'.signer = "ok"
            /\ evidence_populated(fs')
            /\ rc'.search = "failed" => rc'.rekor_uuid = None
       /\ (rc'.pc = "upload" /\ rc'.signer = "ok" /\ rc'.search = "none") =>
            truthy(rc'.rekor_uuid)]_vars

\* the bundle and the search both gave nothing, and the run is at upload with
\* populated evidence
C22_Witness ==
    /\ rc.pc = "upload" /\ rc.signer = "ok" /\ rc.search = "ok"
    /\ rc.rekor_uuid = None
    /\ evidence_populated(fs)

\* a call of this method of the client has returned or raised
called(op) == rk.pc = "returned" /\ rk.op = op

\* C23: verify_entry on an entry that records a hash returns True exactly
\* when that hash and the expected digest are equal after the "sha256:"
\* prefix is cut from each of them, and in every other case raises the
\* mismatch error.
C23_VerifyEntryNormalisesBoth ==
    (called("verify_entry") /\ rk.kind = "entry" /\ is_str(rk.entry_id)) =>
        IF strip_sha256_prefix(rk.hash) = strip_sha256_prefix(rk.digest)
        THEN rk.exc = "none" /\ rk.value = <<"True">>
        ELSE rk.exc = "RekorError" /\ rk.error = "Hash mismatch"

\* the identifier is made of decimal digits only
all_decimal(id) == Len(id) > 0 /\ \A i \in DOMAIN id : id[i] \in DecimalDigits

\* C24: verify_entry makes exactly one lookup for an identifier: the
\* log-index lookup when the identifier consists of decimal digits only, the
\* UUID lookup for every other identifier.
C24_IdentifierDispatch ==
    (called("verify_entry") /\ is_str(rk.entry_id)) =>
        /\ Len(rk.lookups) = 1
        /\ all_decimal(rk.entry_id) => rk.lookups = <<"get_entry_by_log_index">>
        /\ ~all_decimal(rk.entry_id) => rk.lookups = <<"get_entry">>

\* an identifier that starts with a digit and is no log index went to the
\* UUID lookup
C24_Witness ==
    /\ called("verify_entry")
    /\ rk.entry_id = <<"1", "a">>
    /\ rk.lookups = <<"get_entry">>

\* the string is a hex digest
is_hex(d) ==
    Len(d) > 0 /\ \A i \in DOMAIN d : \E j \in DOMAIN HexDigits : d[i] = HexDigits[j]

\* C25: the digest a method has normalised is a fixed point of the
\* normalisation (normalize(normalize(d)) = normalize(d)), and for a hex
\* digest h given bare or as "sha256:" + h the normalised digest is h.
C25_NormalisationIdempotent ==
    (rk.pc = "returned" /\ rk.op \in {"verify_entry", "search_by_hash"}) =>
        /\ strip_sha256_prefix(rk.normalized) = rk.normalized
        /\ \A c \in Payloads :
            rk.digest \in {_calculate_sha256(c), sha256_prefix \o _calculate_sha256(c)}
                => (rk.normalized = _calculate_sha256(c) /\ is_hex(rk.normalized))

\* C26: get_latest_entry_for_hash never raises; what it returns is the first
\* identifier of the list the search answered with, and None for every other
\* outcome of the search (empty list, timeout, transport failure, non-2xx
\* status, a body that is not JSON or not a list).
C26_LatestEntryFirstOrNone ==
    called("get_latest_entry_for_hash") =>
        /\ rk.exc = "none"
        /\ rk.value = IF rk.kind = "json" /\ rk.is_list /\ Len(rk.items) > 0
                      THEN rk.items[1] ELSE None

\* C27: whatever the endpoint does, get_entry, get_entry_by_log_index,
\* search_by_hash and verify_entry return or raise RekorError, no other
\* exception; a timeout, a transport failure, a non-2xx status and a body that
\* is not JSON make each of them raise RekorError, and so does an empty,
\* body-less or undecodable entry in verify_entry.
C27_SingleErrorKind ==
    (rk.pc = "returned" /\ rk.op \in {"get_entry", "get_entry_by_log_index",
                                      "search_by_hash", "verify_entry"}) =>
        /\ rk.exc \in {"none", "RekorError"}
        /\ rk.kind \in {"Timeout", "ConnectionError", "HTTPError", "JSONDecodeError"}
            => rk.exc = "RekorError"
        /\ (rk.op = "verify_entry" /\ rk.kind \in {"empty", "no_body", "bad_body"})
            => rk.exc = "RekorError"

\* an entry whose body does not decode has made verify_entry raise RekorError
C27_Witness ==
    /\ called("verify_entry")
    /\ rk.kind = "bad_body"
    /\ rk.exc = "RekorError" /\ rk.error = "Failed to verify Rekor entry"

C29_OneVersionPerCall ==
    \A c \in Calls :
        (/\ vc[c].temp_file # Absent
         /\ vc[c].temp_artifact # Absent
         /\ verifier_ran(c, VerifierOutcomes)) =>
            vc[c].temp_file = vc[c].temp_artifact

\* C30: a salsag_check right after a successful salsag_install reports
\* INSTALLED and lists no issue; after every salsag_uninstall the three
\* generated files are absent; a salsag_check right after a salsag_uninstall
\* reports NOT INSTALLED; a salsag_uninstall right after a salsag_uninstall
\* removes nothing; a salsag_install without staging_bucket or website_bucket
\* answers with the error and leaves every file and directory as it was.
C30_InstallCheckUninstallRoundTrip ==
    [][/\ (/\ mcp'.tool = "salsag_check"
           /\ mcp.tool = "salsag_install"
           /\ mcp.outcome = "SalsaGate installed successfully!") =>
                (mcp'.outcome = "INSTALLED" /\ mcp'.issues = {})
       /\ mcp'.tool = "salsag_uninstall" =>
                \A f \in GeneratedFiles : mcp'.files[f] = "absent"
       /\ (mcp'.tool = "salsag_check" /\ mcp.tool = "salsag_uninstall") =>
                mcp'.outcome = "NOT INSTALLED"
       /\ (mcp'.tool = "salsag_uninstall" /\ mcp.tool = "salsag_uninstall") =>
                mcp'.removed = {}
       /\ (mcp'.tool = "salsag_install" /\ mcp'.arguments = "bucket missing") =>
                /\ mcp'.outcome = "Error: staging_bucket and website_bucket are required"
                /\ mcp'.files = mcp.files
                /\ mcp'.workflows_dir = mcp.workflows_dir]_vars

\* a check has reported NOT INSTALLED right after an uninstall that removed
\* the three generated files
C30_Witness ==
    /\ mcp.tool = "salsag_check" /\ mcp.outcome = "NOT INSTALLED"
    /\ mcp.prev_tool = "salsag_uninstall"
    /\ mcp.prev_outcome = "SalsaGate has been uninstalled."
    /\ mcp.workflows_dir
    /\ \A f \in GeneratedFiles : mcp.files[f] = "absent"

====
